---- MODULE Spec2Model ----
(***************************************************************************)
(* Model of the encoding core of embedded-batteries:                       *)
(*   - the ACPI serializers BixReturn::to_bytes and Pif::to_bytes          *)
(*     (src/embedded-batteries/src/acpi.rs), and                           *)
(*   - the 16-bit bitfield registers ManufactureDate, BatteryModeFields,   *)
(*     BatteryStatusFields and SpecificationInfoFields                     *)
(*     (src/embedded-batteries/src/smart_battery.rs).                      *)
(*                                                                         *)
(* A u32 is kept as a pair of 16-bit halves [hi, lo] so that every 32-bit  *)
(* value, 0xFFFFFFFF included, is representable.  A byte buffer is a       *)
(* sequence of 0..255; Rust's 0-based offset k is position k + 1.          *)
(***************************************************************************)
EXTENDS Integers, Sequences, FiniteSets, TLC

VARIABLES
    call,        \* the serializer call: [kind, self, sizes]
    dst_slice,   \* the destination buffer of the serializer call
    dst_before,  \* the destination buffer as it was before the call
    result,      \* outcome of the serializer call
    pc,          \* what was last done to the bitfield register
    regType,     \* which bitfield register type `reg` is
    rawIn,       \* the u16 the register was decoded from
    reg,         \* the u16 held by the bitfield struct
    bitsOut,     \* what into_bits() returned
    fieldsOut,   \* what the field getters returned
    hist,        \* the values written by the setters so far
    tpc,         \* where the trait call is: "idle", "done" or "kind"
    trCall,      \* the trait call made: [form, trait, via, op, args, errTy, innerErrTy]
    innerLog,    \* the calls the device T behind an adapter received
    innerRes,    \* what the device T returned
    trRes,       \* what the caller of the trait operation got
    kindOut,     \* what kind() returned for the error of the call
    borrows,     \* the borrows of the shared device handle now alive
    active,      \* per caller, the operation it has in progress
    conv         \* a chain of _BCT / _BTM result conversions

vars == <<call, dst_slice, dst_before, result, pc, regType, rawIn, reg, bitsOut, fieldsOut, hist,
          tpc, trCall, innerLog, innerRes, trRes, kindOut, borrows, active, conv>>

serVars == <<call, dst_slice, dst_before, result>>
bitVars == <<pc, regType, rawIn, reg, bitsOut, fieldsOut, hist>>
trVars == <<tpc, trCall, innerLog, innerRes, trRes, kindOut>>
shVars == <<borrows, active>>
cvVars == <<conv>>

\* Marker for "nothing yet".
NoVal == "none"
\* Marker for a Rust panic (slice index out of range, unreachable!()).
Panic == "panic"

(***************************************************************************)
(* Bounds of the model.                                                    *)
(***************************************************************************)
\* Longest variable-length field (model number, serial number, ...).
MaxStrLen == 2
\* dst_slice is up to MaxShort bytes shorter than header + declared sizes ...
MaxShort == 2
\* ... and up to 4 + MaxExtra bytes longer.
MaxExtra == 1
\* Number of header value profiles.
NProfiles == 3

(***************************************************************************)
(* u32 values and their little-endian bytes.                               *)
(***************************************************************************)
U32(hi, lo) == [hi |-> hi, lo |-> lo]

\* u32::to_le_bytes: least significant byte first.
to_le_bytesBE(v) == <<v.hi \div 256, v.hi % 256, v.lo \div 256, v.lo % 256>>
to_le_bytes(v) == <<v.lo % 256, v.lo \div 256, v.hi % 256, v.hi \div 256>>

\* From<PowerUnit> for u32
PowerUnit_into(value) ==
    CASE value = "MilliWatts" -> U32(0, 0)
      [] value = "MilliAmps" -> U32(0, 1)

\* From<BatteryTechnology> for u32
BatteryTechnology_into(value) ==
    CASE value = "Primary" -> U32(0, 0)
      [] value = "Secondary" -> U32(0, 1)

\* The swap capability codes counted from 1.
BatterySwapCapability_intoFromOne(value) ==
    CASE value = "NonSwappable" -> U32(0, 1)
      [] value = "ColdSwappable" -> U32(0, 2)
      [] value = "HotSwappable" -> U32(0, 3)

\* From<BatterySwapCapability> for u32
BatterySwapCapability_into(value) ==
    CASE value = "NonSwappable" -> U32(0, 0)
      [] value = "ColdSwappable" -> U32(0, 1)
      [] value = "HotSwappable" -> U32(0, 2)

\* PowerSourceState::bits(): the u32 the flags are kept in.
PowerSourceState_bits(state) == state

(***************************************************************************)
(* Slice writes.  A write state is the buffer plus whether an earlier      *)
(* statement panicked.                                                     *)
(***************************************************************************)
\* dst[start..end].copy_from_slice(src): panics when the range is out of
\* bounds or src is not end - start long; otherwise overwrites the range.
CopyFromSliceShifted(st, start, end, src) ==
    IF st.panicked THEN st
    ELSE IF start > end \/ end > Len(st.dst) \/ Len(src) # end - start
         THEN [st EXCEPT !.panicked = TRUE]
         ELSE [st EXCEPT !.dst = [i \in 1..Len(st.dst) |->
                    IF i >= start /\ i < end /\ i - start + 1 <= Len(src)
                    THEN src[i - start + 1] ELSE st.dst[i]]]
\* A write that also clears everything behind the range.
CopyFromSliceClearTail(st, start, end, src) ==
    IF st.panicked THEN st
    ELSE IF start > end \/ end > Len(st.dst) \/ Len(src) # end - start
         THEN [st EXCEPT !.panicked = TRUE]
         ELSE [st EXCEPT !.dst = [i \in 1..Len(st.dst) |->
                    IF i - 1 >= start /\ i - 1 < end
                    THEN src[i - start]
                    ELSE IF i - 1 >= end THEN 0 ELSE st.dst[i]]]
CopyFromSlice(st, start, end, src) ==
    IF st.panicked THEN st
    ELSE IF start > end \/ end > Len(st.dst) \/ Len(src) # end - start
         THEN [st EXCEPT !.panicked = TRUE]
         ELSE [st EXCEPT !.dst = [i \in 1..Len(st.dst) |->
                    IF i - 1 >= start /\ i - 1 < end
                    THEN src[i - start] ELSE st.dst[i]]]

\* if dst_slice.len() < oem_info_end_idx
slice_too_smallOffByOne(dst_len, oem_info_end_idx) == dst_len + 1 < oem_info_end_idx
slice_too_small(dst_len, oem_info_end_idx) == dst_len < oem_info_end_idx

\* self.<field>.len() != <field>_size
size_mismatchShorterOnly(field_len, field_size) == field_len < field_size
size_mismatch(field_len, field_size) == field_len # field_size

Finish(st) == [result |-> IF st.panicked THEN Panic ELSE "Ok", dst |-> st.dst]

(***************************************************************************)
(* BixReturn::to_bytes                                                     *)
(***************************************************************************)
BixReturn_to_bytes(self, dst, model_num_size, serial_num_size, battery_type_size, oem_info_size) ==
    LET MODEL_NUM_START_IDX == 64
        model_num_end_idx == MODEL_NUM_START_IDX + model_num_size
        serial_num_start_idx == model_num_end_idx
        serial_num_end_idx == serial_num_start_idx + serial_num_size
        battery_type_start_idx == serial_num_end_idx
        battery_type_end_idx == battery_type_start_idx + battery_type_size
        oem_info_start_idx == battery_type_end_idx
        oem_info_end_idx == oem_info_start_idx + oem_info_size
        s0 == [dst |-> dst, panicked |-> FALSE]
        s1 == CopyFromSlice(s0, 0, 4, to_le_bytes(self.revision))
        s2 == CopyFromSlice(s1, 4, 8, to_le_bytes(PowerUnit_into(self.power_unit)))
        s3 == CopyFromSlice(s2, 8, 12, to_le_bytes(self.design_capacity))
        s4 == CopyFromSlice(s3, 12, 16, to_le_bytes(self.last_full_charge_capacity))
        s5 == CopyFromSlice(s4, 16, 20,
                  to_le_bytes(BatteryTechnology_into(self.battery_technology)))
        s6 == CopyFromSlice(s5, 20, 24, to_le_bytes(self.design_voltage))
        s7 == CopyFromSlice(s6, 24, 28, to_le_bytes(self.design_cap_of_warning))
        s8 == CopyFromSlice(s7, 28, 32, to_le_bytes(self.design_cap_of_low))
        s9 == CopyFromSlice(s8, 32, 36, to_le_bytes(self.cycle_count))
        s10 == CopyFromSlice(s9, 36, 40, to_le_bytes(self.measurement_accuracy))
        s11 == CopyFromSlice(s10, 40, 44, to_le_bytes(self.max_sampling_time))
        s12 == CopyFromSlice(s11, 44, 48, to_le_bytes(self.min_sampling_time))
        s13 == CopyFromSlice(s12, 48, 52, to_le_bytes(self.max_averaging_interval))
        s14 == CopyFromSlice(s13, 52, 56, to_le_bytes(self.min_averaging_interval))
        s15 == CopyFromSlice(s14, 56, 60,
                  to_le_bytes(self.battery_capacity_granularity_1))
        s16 == CopyFromSlice(s15, 60, 64,
                  to_le_bytes(self.battery_capacity_granularity_2))
        s17 == CopyFromSlice(s16, MODEL_NUM_START_IDX, model_num_end_idx,
                  self.model_number)
        s18 == CopyFromSlice(s17, serial_num_start_idx, serial_num_end_idx,
                  self.serial_number)
        s19 == CopyFromSlice(s18, battery_type_start_idx, battery_type_end_idx,
                  self.battery_type)
        s20 == CopyFromSlice(s19, oem_info_start_idx, oem_info_end_idx,
                  self.oem_info)
        s21 == CopyFromSlice(s20, oem_info_end_idx, oem_info_end_idx + 4,
                  to_le_bytes(BatterySwapCapability_into(
                      self.battery_swapping_capability)))
    IN  IF slice_too_small(Len(dst), oem_info_end_idx)
        THEN [result |-> "InputSliceTooSmall", dst |-> dst]
        ELSE IF \/ size_mismatch(Len(self.model_number), model_num_size)
                \/ size_mismatch(Len(self.serial_number), serial_num_size)
                \/ size_mismatch(Len(self.battery_type), battery_type_size)
                \/ size_mismatch(Len(self.oem_info), oem_info_size)
        THEN [result |-> "StringSizeMismatch", dst |-> dst]
        ELSE Finish(s21)

(***************************************************************************)
(* Pif::to_bytes                                                           *)
(***************************************************************************)
\* Pif::to_bytes writing the three header values before it checks anything.
Pif_to_bytesWriteFirst(self, dst, model_num_size, serial_num_size, oem_info_size) ==
    LET oem_info_end_idx == 12 + model_num_size + serial_num_size + oem_info_size
        s0 == [dst |-> dst, panicked |-> FALSE]
        s1 == CopyFromSlice(s0, 0, 4,
                  to_le_bytes(PowerSourceState_bits(self.power_source_state)))
        s2 == CopyFromSlice(s1, 4, 8, to_le_bytes(self.max_output_power))
        s3 == CopyFromSlice(s2, 8, 12, to_le_bytes(self.max_input_power))
        s4 == CopyFromSlice(s3, 12, 12 + model_num_size, self.model_number)
        s5 == CopyFromSlice(s4, 12 + model_num_size,
                  12 + model_num_size + serial_num_size, self.serial_number)
        s6 == CopyFromSlice(s5, 12 + model_num_size + serial_num_size,
                  oem_info_end_idx, self.oem_info)
    IN  IF s3.panicked THEN [result |-> Panic, dst |-> s3.dst]
        ELSE IF slice_too_small(Len(dst), oem_info_end_idx)
        THEN [result |-> "InputSliceTooSmall", dst |-> s3.dst]
        ELSE IF \/ size_mismatch(Len(self.model_number), model_num_size)
                \/ size_mismatch(Len(self.serial_number), serial_num_size)
                \/ size_mismatch(Len(self.oem_info), oem_info_size)
        THEN [result |-> "StringSizeMismatch", dst |-> s3.dst]
        ELSE Finish(s6)

\* Pif::to_bytes comparing the lengths before it looks at the buffer.
Pif_to_bytesMismatchFirst(self, dst, model_num_size, serial_num_size, oem_info_size) ==
    LET oem_info_end_idx == 12 + model_num_size + serial_num_size + oem_info_size
        s0 == [dst |-> dst, panicked |-> FALSE]
        s1 == CopyFromSlice(s0, 0, 4,
                  to_le_bytes(PowerSourceState_bits(self.power_source_state)))
        s2 == CopyFromSlice(s1, 4, 8, to_le_bytes(self.max_output_power))
        s3 == CopyFromSlice(s2, 8, 12, to_le_bytes(self.max_input_power))
        s4 == CopyFromSlice(s3, 12, 12 + model_num_size, self.model_number)
        s5 == CopyFromSlice(s4, 12 + model_num_size,
                  12 + model_num_size + serial_num_size, self.serial_number)
        s6 == CopyFromSlice(s5, 12 + model_num_size + serial_num_size,
                  oem_info_end_idx, self.oem_info)
    IN  IF \/ size_mismatch(Len(self.model_number), model_num_size)
           \/ size_mismatch(Len(self.serial_number), serial_num_size)
           \/ size_mismatch(Len(self.oem_info), oem_info_size)
        THEN [result |-> "StringSizeMismatch", dst |-> dst]
        ELSE IF slice_too_small(Len(dst), oem_info_end_idx)
        THEN [result |-> "InputSliceTooSmall", dst |-> dst]
        ELSE Finish(s6)

Pif_to_bytes(self, dst, model_num_size, serial_num_size, oem_info_size) ==
    LET MODEL_NUM_START_IDX == 12
        model_num_end_idx == MODEL_NUM_START_IDX + model_num_size
        serial_num_start_idx == model_num_end_idx
        serial_num_end_idx == serial_num_start_idx + serial_num_size
        oem_info_start_idx == serial_num_end_idx
        oem_info_end_idx == oem_info_start_idx + oem_info_size
        s0 == [dst |-> dst, panicked |-> FALSE]
        s1 == CopyFromSlice(s0, 0, 4,
                  to_le_bytes(PowerSourceState_bits(self.power_source_state)))
        s2 == CopyFromSlice(s1, 4, 8, to_le_bytes(self.max_output_power))
        s3 == CopyFromSlice(s2, 8, 12, to_le_bytes(self.max_input_power))
        s4 == CopyFromSlice(s3, MODEL_NUM_START_IDX, model_num_end_idx,
                  self.model_number)
        s5 == CopyFromSlice(s4, serial_num_start_idx, serial_num_end_idx,
                  self.serial_number)
        s6 == CopyFromSlice(s5, oem_info_start_idx, oem_info_end_idx,
                  self.oem_info)
    IN  IF slice_too_small(Len(dst), oem_info_end_idx)
        THEN [result |-> "InputSliceTooSmall", dst |-> dst]
        ELSE IF \/ size_mismatch(Len(self.model_number), model_num_size)
                \/ size_mismatch(Len(self.serial_number), serial_num_size)
                \/ size_mismatch(Len(self.oem_info), oem_info_size)
        THEN [result |-> "StringSizeMismatch", dst |-> dst]
        ELSE Finish(s6)

(***************************************************************************)
(* Bitfield registers (#[bitfield(u16)]): the struct holds one u16; the    *)
(* fields are packed from bit 0 upwards in declaration order.              *)
(***************************************************************************)
RECURSIVE Pow2(_)
Pow2(n) == IF n = 0 THEN 1 ELSE 2 * Pow2(n - 1)

Field(name, bits, ty) == [name |-> name, bits |-> bits, ty |-> ty]

\* struct ManufactureDate
ManufactureDateLayout ==
    <<Field("day", 5, "usize"), Field("month", 4, "usize"), Field("year", 7, "usize")>>

\* BatteryModeFields with the first reserved range one bit short.
BatteryModeFieldsLayoutShortPad ==
    <<Field("internal_charge_controller", 1, "bool"),
      Field("primary_battery_support", 1, "bool"),
      Field("__2", 4, "pad"),
      Field("condition_flag", 1, "bool"),
      Field("charge_controller_enabled", 1, "bool"),
      Field("primary_battery", 1, "bool"),
      Field("__10", 3, "pad"),
      Field("alarm_mode", 1, "bool"),
      Field("charger_mode", 1, "bool"),
      Field("capacity_mode", 1, "bool")>>

\* struct BatteryModeFields
BatteryModeFieldsLayout ==
    <<Field("internal_charge_controller", 1, "bool"),
      Field("primary_battery_support", 1, "bool"),
      Field("__2", 5, "pad"),
      Field("condition_flag", 1, "bool"),
      Field("charge_controller_enabled", 1, "bool"),
      Field("primary_battery", 1, "bool"),
      Field("__10", 3, "pad"),
      Field("alarm_mode", 1, "bool"),
      Field("charger_mode", 1, "bool"),
      Field("capacity_mode", 1, "bool")>>

\* BatteryStatusFields with the two reserved bits declared after the alarms
\* instead of between them.
BatteryStatusFieldsLayoutPadLast ==
    <<Field("error_code", 4, "ErrorCode"),
      Field("fully_discharged", 1, "bool"),
      Field("fully_charged", 1, "bool"),
      Field("discharging", 1, "bool"),
      Field("initialized", 1, "bool"),
      Field("remaining_time_alarm", 1, "bool"),
      Field("remaining_capacity_alarm", 1, "bool"),
      Field("terminate_discharge_alarm", 1, "bool"),
      Field("over_temp_alarm", 1, "bool"),
      Field("terminate_charge_alarm", 1, "bool"),
      Field("over_charged_alarm", 1, "bool"),
      Field("__14", 1, "pad"),
      Field("__15", 1, "pad")>>

\* struct BatteryStatusFields
BatteryStatusFieldsLayout ==
    <<Field("error_code", 4, "ErrorCode"),
      Field("fully_discharged", 1, "bool"),
      Field("fully_charged", 1, "bool"),
      Field("discharging", 1, "bool"),
      Field("initialized", 1, "bool"),
      Field("remaining_time_alarm", 1, "bool"),
      Field("remaining_capacity_alarm", 1, "bool"),
      Field("__10", 1, "pad"),
      Field("terminate_discharge_alarm", 1, "bool"),
      Field("over_temp_alarm", 1, "bool"),
      Field("__13", 1, "pad"),
      Field("terminate_charge_alarm", 1, "bool"),
      Field("over_charged_alarm", 1, "bool")>>

\* SpecificationInfoFields with the two scale fields declared in the other
\* order.
SpecificationInfoFieldsLayoutSwapped ==
    <<Field("revision", 4, "Revision"), Field("version", 4, "Version"),
      Field("ip_scale", 4, "u8"), Field("v_scale", 4, "u8")>>

\* struct SpecificationInfoFields
SpecificationInfoFieldsLayout ==
    <<Field("revision", 4, "Revision"), Field("version", 4, "Version"),
      Field("v_scale", 4, "u8"), Field("ip_scale", 4, "u8")>>

RegTypes ==
    {"ManufactureDate", "BatteryModeFields", "BatteryStatusFields",
     "SpecificationInfoFields"}

Layout(ty) ==
    CASE ty = "ManufactureDate" -> ManufactureDateLayout
      [] ty = "BatteryModeFields" -> BatteryModeFieldsLayout
      [] ty = "BatteryStatusFields" -> BatteryStatusFieldsLayout
      [] ty = "SpecificationInfoFields" -> SpecificationInfoFieldsLayout

\* Bit offset of the k-th field: the widths of the fields declared before it.
RECURSIVE FieldOffset(_, _)
FieldOffset(layout, k) ==
    IF k = 1 THEN 0 ELSE FieldOffset(layout, k - 1) + layout[k - 1].bits

\* ErrorCode::from_bits looking at three bits only.
ErrorCode_from_bitsThreeBits(value) ==
    CASE value % 8 = 0 -> "Ok"
      [] value % 8 = 1 -> "Busy"
      [] value % 8 = 2 -> "ReservedCmd"
      [] value % 8 = 3 -> "UnsupportedCmd"
      [] value % 8 = 4 -> "AccessDenied"
      [] value % 8 = 5 -> "UnderOverFlow"
      [] value % 8 = 6 -> "BadSize"
      [] OTHER -> "UnknownError"

\* ErrorCode::from_bits
ErrorCode_from_bits(value) ==
    CASE value = 0 -> "Ok"
      [] value = 1 -> "Busy"
      [] value = 2 -> "ReservedCmd"
      [] value = 3 -> "UnsupportedCmd"
      [] value = 4 -> "AccessDenied"
      [] value = 5 -> "UnderOverFlow"
      [] value = 6 -> "BadSize"
      [] OTHER -> "UnknownError"

\* Revision::from_bits: unreachable!() for everything but 1.
Revision_from_bitsReserved(value) ==
    IF value = 1 THEN "Version1And1Dot1" ELSE "Reserved"
Revision_from_bits(value) ==
    IF value = 1 THEN "Version1And1Dot1" ELSE Panic

\* Version::from_bits with the repr(u8) discriminants taken for the arms
\* (0 -> Reserved, ..., 3 -> Version1Dot1Pec) and no catch-all for 4..15.
Version_from_bitsNoCatchAll(value) ==
    CASE value = 0 -> "Reserved"
      [] value = 1 -> "Version1"
      [] value = 2 -> "Version1Dot1"
      [] value = 3 -> "Version1Dot1Pec"
      [] OTHER -> Panic

\* Version::from_bits
Version_from_bits(value) ==
    CASE value = 1 -> "Version1"
      [] value = 2 -> "Version1Dot1"
      [] value = 3 -> "Version1Dot1Pec"
      [] OTHER -> "Reserved"

\* The raw bits of the k-th field: (self.0 >> OFFSET) & mask.
FieldBitsNoMask(layout, k, bits) == bits \div Pow2(FieldOffset(layout, k))
FieldBits(layout, k, bits) ==
    (bits \div Pow2(FieldOffset(layout, k))) % Pow2(layout[k].bits)

\* The getter of the k-th field: its bits converted to the field's type.  The
\* outcome is [ok, val]; ok is FALSE when the conversion aborts.
Getter(layout, k, bits) ==
    LET v == FieldBits(layout, k, bits)
        ty == layout[k].ty
    IN  CASE ty = "bool" -> [ok |-> TRUE, val |-> (v # 0)]
          [] ty = "ErrorCode" -> [ok |-> TRUE, val |-> ErrorCode_from_bits(v)]
          [] ty = "Version" -> [ok |-> TRUE, val |-> Version_from_bits(v)]
          [] ty = "Revision" ->
                [ok |-> Revision_from_bits(v) # Panic, val |-> Revision_from_bits(v)]
          [] OTHER -> [ok |-> TRUE, val |-> v]

\* The setter of the k-th field (set_<field> / with_<field>) for a value that
\* fits the field: clears the field's bits and ors the value in.
SetterWideMask(layout, k, bits, v) ==
    bits - ((bits \div Pow2(FieldOffset(layout, k))) % Pow2(layout[k].bits + 1))
              * Pow2(FieldOffset(layout, k))
         + v * Pow2(FieldOffset(layout, k))
SetterNoShift(layout, k, bits, v) ==
    bits - FieldBits(layout, k, bits) * Pow2(FieldOffset(layout, k)) + v
Setter(layout, k, bits, v) ==
    bits - FieldBits(layout, k, bits) * Pow2(FieldOffset(layout, k))
         + v * Pow2(FieldOffset(layout, k))

from_bitsMasked(ty, bits) == bits % Pow2(15)
\* <Register>::from_bits(bits): wraps the u16 as it is.
from_bits(ty, bits) == bits

\* <Register>::into_bits(): the wrapped u16.
into_bitsCanonical(ty, r) ==
    IF ty = "BatteryStatusFields" /\ r % 16 > 7 THEN r - (r % 16) + 7 ELSE r
into_bits(ty, r) == r

\* <Register>::new(): all fields zero.
new(ty) == 0

\* The named (non-padding) fields of a register type.
NamedFields(ty) == { k \in 1..Len(Layout(ty)) : Layout(ty)[k].ty # "pad" }

\* Reading every named field of the register.
ReadAll(ty, r) == [k \in NamedFields(ty) |-> Getter(Layout(ty), k, r)]

(***************************************************************************)
(* Inputs of the serializer calls.                                         *)
(***************************************************************************)
\* The k-th header value of profile p: distinct per field, all four bytes
\* in use, 0xFFFFFFFF-like values included.
Val(p, k) == U32((p * 21845 + k * 257) % 65536, (p * 13107 + k + 1) % 65536)

\* The bytes of a variable-length field: field f of length n.
StrOf(f, n) == [i \in 1..n |-> 16 * f + i]

Profiles == 0..(NProfiles - 1)

PowerUnits == <<"MilliWatts", "MilliAmps">>
BatteryTechnologies == <<"Primary", "Secondary">>
BatterySwapCapabilities == <<"NonSwappable", "ColdSwappable", "HotSwappable">>

\* A BixReturn value with header profile p and string lengths lens[1..4].
BixValue(p, lens) ==
    [revision |-> Val(p, 0),
     power_unit |-> PowerUnits[(p % 2) + 1],
     design_capacity |-> Val(p, 2),
     last_full_charge_capacity |-> Val(p, 3),
     battery_technology |-> BatteryTechnologies[((p \div 2) % 2) + 1],
     design_voltage |-> Val(p, 5),
     design_cap_of_warning |-> Val(p, 6),
     design_cap_of_low |-> Val(p, 7),
     cycle_count |-> Val(p, 8),
     measurement_accuracy |-> Val(p, 9),
     max_sampling_time |-> Val(p, 10),
     min_sampling_time |-> Val(p, 11),
     max_averaging_interval |-> Val(p, 12),
     min_averaging_interval |-> Val(p, 13),
     battery_capacity_granularity_1 |-> Val(p, 14),
     battery_capacity_granularity_2 |-> Val(p, 15),
     model_number |-> StrOf(1, lens[1]),
     serial_number |-> StrOf(2, lens[2]),
     battery_type |-> StrOf(3, lens[3]),
     oem_info |-> StrOf(4, lens[4]),
     battery_swapping_capability |-> BatterySwapCapabilities[(p % 3) + 1]]

\* A Pif value; profile 0 is the documented example (0x3, 100, 200).
PifValue(p, lens) ==
    [power_source_state |-> IF p = 0 THEN U32(0, 3) ELSE Val(p, 0),
     max_output_power |-> IF p = 0 THEN U32(0, 100) ELSE Val(p, 1),
     max_input_power |-> IF p = 0 THEN U32(0, 200) ELSE Val(p, 2),
     model_number |-> StrOf(1, lens[1]),
     serial_number |-> StrOf(2, lens[2]),
     oem_info |-> StrOf(4, lens[3])]

\* Declared sizes: the actual lengths, with field m (or every field when
\* m = n + 1, or none when m = 0) off by d.
Declared(lens, n, m, d) ==
    [k \in 1..n |-> IF m = k \/ m = n + 1 THEN lens[k] + d ELSE lens[k]]

RECURSIVE SumSeq(_)
SumSeq(s) == IF s = <<>> THEN 0 ELSE Head(s) + SumSeq(Tail(s))

\* The buffer before the call: arbitrary bytes, here a pattern by offset.
Fill(n) == [i \in 1..n |-> (170 + 37 * i) % 256]

HeaderSize(kind) == IF kind = "bix" THEN 64 ELSE 12
NumStrings(kind) == IF kind = "bix" THEN 4 ELSE 3

SerCalls ==
    { [kind |-> kind,
       self |-> IF kind = "bix" THEN BixValue(p, lens) ELSE PifValue(p, lens),
       sizes |-> Declared(lens, NumStrings(kind), m, d)] :
        kind \in {"bix"}, p \in Profiles, lens \in [1..4 -> 0..MaxStrLen],
        m \in 0..5, d \in {-1, 1} }
    \cup
    { [kind |-> kind,
       self |-> PifValue(p, lens),
       sizes |-> Declared(lens, NumStrings(kind), m, d)] :
        kind \in {"pif"}, p \in Profiles, lens \in [1..3 -> 0..MaxStrLen],
        m \in 0..4, d \in {-1, 1} }

InitSer ==
    /\ call \in { c \in SerCalls : \A k \in DOMAIN c.sizes : c.sizes[k] >= 0 }
    /\ \E off \in (0 - MaxShort)..(4 + MaxExtra) :
          /\ HeaderSize(call.kind) + SumSeq(call.sizes) + off >= 0
          /\ dst_slice = Fill(HeaderSize(call.kind) + SumSeq(call.sizes) + off)
    /\ dst_before = dst_slice
    /\ result = NoVal

IdleSer ==
    /\ call = [kind |-> "idle"]
    /\ dst_slice = <<>>
    /\ dst_before = <<>>
    /\ result = NoVal

\* A caller runs BixReturn::to_bytes on the buffer.
BixToBytes ==
    /\ call.kind = "bix"
    /\ result = NoVal
    /\ LET r == BixReturn_to_bytes(call.self, dst_slice, call.sizes[1],
                    call.sizes[2], call.sizes[3], call.sizes[4])
       IN  /\ result' = r.result
           /\ dst_slice' = r.dst
    /\ UNCHANGED <<call, dst_before, bitVars, trVars, shVars, cvVars>>

\* A caller runs Pif::to_bytes on the buffer.
PifToBytes ==
    /\ call.kind = "pif"
    /\ result = NoVal
    /\ LET r == Pif_to_bytes(call.self, dst_slice, call.sizes[1],
                    call.sizes[2], call.sizes[3])
       IN  /\ result' = r.result
           /\ dst_slice' = r.dst
    /\ UNCHANGED <<call, dst_before, bitVars, trVars, shVars, cvVars>>

NoHist == [day |-> -1, month |-> -1, year |-> -1]

IdleBits ==
    /\ pc = "idle"
    /\ regType = NoVal
    /\ rawIn = 0
    /\ reg = 0
    /\ bitsOut = 0
    /\ fieldsOut = <<>>
    /\ hist = NoHist

\* A _BCT / _BTM result: its variant and, for the estimate, its seconds.
Variant(tag, seconds) == [tag |-> tag, seconds |-> seconds]

\* No conversion has been asked for.
IdleConv ==
    conv = [ty |-> "", dir |-> "", step |-> 0, v |-> U32(0, 0),
            r |-> Variant("", U32(0, 0)), v2 |-> U32(0, 0),
            r2 |-> Variant("", U32(0, 0)), bytes |-> <<>>]

\* A value of the trait layer: its type, its variant and its number.
V(ty, tag, v) == [ty |-> ty, tag |-> tag, v |-> v]

\* The unit value ().
Unit == V("()", "", 0)

\* No trait call has been made.
IdleTr ==
    /\ tpc = "idle"
    /\ trCall = [form |-> "", trait |-> "", via |-> "", op |-> "",
                 args |-> <<>>, errTy |-> "", innerErrTy |-> ""]
    /\ innerLog = <<>>
    /\ innerRes = [ok |-> TRUE, val |-> Unit]
    /\ trRes = [ok |-> TRUE, val |-> Unit]
    /\ kindOut = Unit

\* A caller with no operation in progress.
NoOp == [st |-> "none", form |-> "", trait |-> "", op |-> ""]

\* Nobody uses the shared device handle.
IdleShare ==
    /\ borrows = {}
    /\ active = <<>>

NextSer == BixToBytes \/ PifToBytes

SerInit == InitSer /\ IdleBits /\ IdleTr /\ IdleShare /\ IdleConv

SpecSer == SerInit /\ [][NextSer]_vars

(***************************************************************************)
(* Decoding registers: every u16 is decoded, then re-encoded or read.      *)
(***************************************************************************)
U16 == 0..65535

InitBits ==
    /\ regType \in RegTypes
    /\ rawIn \in U16
    /\ reg = from_bits(regType, rawIn)
    /\ pc = "decoded"
    /\ bitsOut = 0
    /\ fieldsOut = <<>>
    /\ hist = NoHist

\* The caller re-encodes the register with into_bits().
IntoBits ==
    /\ pc = "decoded"
    /\ bitsOut' = into_bits(regType, reg)
    /\ pc' = "encoded"
    /\ UNCHANGED <<regType, rawIn, reg, fieldsOut, hist, serVars, trVars, shVars, cvVars>>

\* The caller reads every named field of the register.
ReadFields ==
    /\ pc = "decoded"
    /\ fieldsOut' = ReadAll(regType, reg)
    /\ pc' = "read"
    /\ UNCHANGED <<regType, rawIn, reg, bitsOut, hist, serVars, trVars, shVars, cvVars>>

NextBits == IntoBits \/ ReadFields

BitsInit == InitBits /\ IdleSer /\ IdleTr /\ IdleShare /\ IdleConv

SpecBits == BitsInit /\ [][NextBits]_vars

(***************************************************************************)
(* Building a ManufactureDate: new(), then the three setters in any order. *)
(***************************************************************************)
InitDate ==
    /\ regType = "ManufactureDate"
    /\ rawIn = 0
    /\ reg = new("ManufactureDate")
    /\ pc = "built"
    /\ bitsOut = 0
    /\ fieldsOut = <<>>
    /\ hist = NoHist

\* ManufactureDate::set_day(value)
set_day ==
    /\ pc = "built" /\ hist.day = -1
    /\ \E value \in 0..31 :
          /\ reg' = Setter(ManufactureDateLayout, 1, reg, value)
          /\ hist' = [hist EXCEPT !.day = value]
    /\ UNCHANGED <<pc, regType, rawIn, bitsOut, fieldsOut, serVars, trVars, shVars, cvVars>>

\* ManufactureDate::set_month(value)
set_month ==
    /\ pc = "built" /\ hist.month = -1
    /\ \E value \in 0..15 :
          /\ reg' = Setter(ManufactureDateLayout, 2, reg, value)
          /\ hist' = [hist EXCEPT !.month = value]
    /\ UNCHANGED <<pc, regType, rawIn, bitsOut, fieldsOut, serVars, trVars, shVars, cvVars>>

\* ManufactureDate::set_year(value)
set_year ==
    /\ pc = "built" /\ hist.year = -1
    /\ \E value \in 0..127 :
          /\ reg' = Setter(ManufactureDateLayout, 3, reg, value)
          /\ hist' = [hist EXCEPT !.year = value]
    /\ UNCHANGED <<pc, regType, rawIn, bitsOut, fieldsOut, serVars, trVars, shVars, cvVars>>

\* The caller reads day(), month() and year() of the finished date.
ReadDate ==
    /\ pc = "built"
    /\ hist.day # -1 /\ hist.month # -1 /\ hist.year # -1
    /\ fieldsOut' = ReadAll("ManufactureDate", reg)
    /\ pc' = "read"
    /\ UNCHANGED <<regType, rawIn, reg, bitsOut, hist, serVars, trVars, shVars, cvVars>>

NextDate == set_day \/ set_month \/ set_year \/ ReadDate

DateInit == InitDate /\ IdleSer /\ IdleTr /\ IdleShare /\ IdleConv

SpecDate == DateInit /\ [][NextDate]_vars

(***************************************************************************)
(* Changing a decoded register: from_bits(I), then setters, with the       *)
(* caller looking at into_bits() and at every getter before and after      *)
(* each setter call.                                                       *)
(***************************************************************************)
\* The registers start from I = i * 0x1111 for i in 0..MaxI.
MaxI == 15
\* At most MaxSets setter calls are made on one register.
MaxSets == 2
\* An integer field is set to its MaxSetVal + 1 lowest and highest values.
MaxSetVal == 1

ISamples == { (i * 4369) % 65536 : i \in 0..MaxI }

ReadOnlyNone(ty) == {}

\* The fields declared with access = RO: they get a getter and no setter.
ReadOnly(ty) ==
    IF ty = "BatteryModeFields"
    THEN {"internal_charge_controller", "primary_battery_support", "condition_flag"}
    ELSE {}

\* The fields that have a setter.
Settable(ty) == { k \in NamedFields(ty) : Layout(ty)[k].name \notin ReadOnly(ty) }

\* ErrorCode::into_bits with UnknownError as all ones.
ErrorCode_into_bitsAllOnes(self) ==
    CASE self = "Ok" -> 0
      [] self = "Busy" -> 1
      [] self = "ReservedCmd" -> 2
      [] self = "UnsupportedCmd" -> 3
      [] self = "AccessDenied" -> 4
      [] self = "UnderOverFlow" -> 5
      [] self = "BadSize" -> 6
      [] self = "UnknownError" -> 15

\* ErrorCode::into_bits: the discriminant.
ErrorCode_into_bits(self) ==
    CASE self = "Ok" -> 0
      [] self = "Busy" -> 1
      [] self = "ReservedCmd" -> 2
      [] self = "UnsupportedCmd" -> 3
      [] self = "AccessDenied" -> 4
      [] self = "UnderOverFlow" -> 5
      [] self = "BadSize" -> 6
      [] self = "UnknownError" -> 7

\* Revision::into_bits: the discriminant.
Revision_into_bits(self) == 1

\* Version::into_bits: the discriminant.
Version_into_bits(self) ==
    CASE self = "Reserved" -> 0
      [] self = "Version1" -> 1
      [] self = "Version1Dot1" -> 2
      [] self = "Version1Dot1Pec" -> 3

\* The in-range values a setter of field f can be given.
FieldValues(f) ==
    CASE f.ty = "bool" -> {FALSE, TRUE}
      [] f.ty = "ErrorCode" ->
            {"Ok", "Busy", "ReservedCmd", "UnsupportedCmd", "AccessDenied",
             "UnderOverFlow", "BadSize", "UnknownError"}
      [] f.ty = "Version" -> {"Reserved", "Version1", "Version1Dot1", "Version1Dot1Pec"}
      [] f.ty = "Revision" -> {"Version1And1Dot1"}
      [] OTHER -> (0..MaxSetVal) \cup ((Pow2(f.bits) - 1 - MaxSetVal)..(Pow2(f.bits) - 1))

\* The bits a setter stores for the value v of field f.
IntoFieldBits(f, v) ==
    CASE f.ty = "bool" -> IF v THEN 1 ELSE 0
      [] f.ty = "ErrorCode" -> ErrorCode_into_bits(v)
      [] f.ty = "Version" -> Version_into_bits(v)
      [] f.ty = "Revision" -> Revision_into_bits(v)
      [] OTHER -> v

\* <Register>::from_bits(I)
InitSet ==
    /\ regType \in RegTypes
    /\ rawIn \in ISamples
    /\ reg = from_bits(regType, rawIn)
    /\ pc = "new"
    /\ bitsOut = 0
    /\ fieldsOut = <<>>
    /\ hist = [n |-> 0, k |-> 0, v |-> 0, prevBits |-> 0, prevFields |-> <<>>]

\* The caller looks at the register: into_bits() and every getter.
Observe ==
    /\ pc \in {"new", "set"}
    /\ bitsOut' = into_bits(regType, reg)
    /\ fieldsOut' = ReadAll(regType, reg)
    /\ pc' = "seen"
    /\ UNCHANGED <<regType, rawIn, reg, hist, serVars, trVars, shVars, cvVars>>

\* The caller calls the setter of one field with an in-range value.
SetField ==
    /\ pc = "seen"
    /\ hist.n < MaxSets
    /\ \E k \in Settable(regType) :
         \E v \in FieldValues(Layout(regType)[k]) :
            /\ reg' = Setter(Layout(regType), k, reg,
                             IntoFieldBits(Layout(regType)[k], v))
            /\ hist' = [n |-> hist.n + 1, k |-> k, v |-> v,
                        prevBits |-> bitsOut, prevFields |-> fieldsOut]
    /\ pc' = "set"
    /\ UNCHANGED <<regType, rawIn, bitsOut, fieldsOut, serVars, trVars, shVars, cvVars>>

NextSet == Observe \/ SetField

SetInit == InitSet /\ IdleSer /\ IdleTr /\ IdleShare /\ IdleConv

SpecSet == SetInit /\ [][NextSet]_vars

(***************************************************************************)
(* The trait layer: the SmartBattery and Charger traits in their blocking  *)
(* and async forms, the error kinds, the &mut T adapters and the wrapper   *)
(* macro.  A device driver is outside the crate: what it returns is a      *)
(* free choice over the values of the declared result type.                *)
(***************************************************************************)
\* Integer types are sampled: their two extremes and 0..MaxSample.
MaxSample == 1

\* One operation of a trait: name, receiver, argument types, Ok type.
Op(name, recv, args, ret) ==
    [name |-> name, recv |-> recv, args |-> args, ret |-> ret]

\* One forwarding body: the operation it implements, the operation it calls,
\* the positions of the parameters it passes on, and what follows the call.
Fwd(name, target, pass, post) ==
    [name |-> name, target |-> target, pass |-> pass, post |-> post]

\* The operations of the blocking SmartBattery trait.
BlockingSmartBattery ==
    << Op("remaining_capacity_alarm", "&mut self", <<"CapacityModeValue">>, "CapacityModeValue"),
       Op("remaining_time_alarm", "&mut self", <<"Minutes">>, "Minutes"),
       Op("battery_mode", "&mut self", <<"u16">>, "u16"),
       Op("at_rate", "&mut self", <<"CapacityModeSignedValue">>, "CapacityModeSignedValue"),
       Op("at_rate_time_to_full", "&mut self", <<>>, "Minutes"),
       Op("at_rate_time_to_empty", "&mut self", <<>>, "Minutes"),
       Op("at_rate_ok", "&mut self", <<>>, "bool"),
       Op("temperature", "&mut self", <<>>, "bool"),
       Op("voltage", "&mut self", <<>>, "MilliVolts"),
       Op("current", "&mut self", <<>>, "MilliAmpsSigned"),
       Op("average_current", "&mut self", <<>>, "MilliAmpsSigned"),
       Op("max_error", "&mut self", <<>>, "Percent"),
       Op("relative_state_of_charge", "&mut self", <<>>, "Percent"),
       Op("absolute_state_of_charge", "&mut self", <<>>, "Percent"),
       Op("remaining_capacity", "&mut self", <<>>, "CapacityModeValue"),
       Op("full_charge_capacity", "&mut self", <<>>, "CapacityModeValue"),
       Op("run_time_to_empty", "&mut self", <<>>, "Minutes"),
       Op("average_time_to_empty", "&mut self", <<>>, "Minutes"),
       Op("average_time_to_full", "&mut self", <<>>, "Minutes"),
       Op("battery_status", "&mut self", <<>>, "BatteryStatusFields"),
       Op("cycle_count", "&mut self", <<>>, "Cycles"),
       Op("design_capacity", "&mut self", <<>>, "CapacityModeValue"),
       Op("design_voltage", "&mut self", <<>>, "MilliVolts"),
       Op("specification_info", "&mut self", <<>>, "u16"),
       Op("manufacture_date", "&mut self", <<>>, "ManufactureDate"),
       Op("serial_number", "&mut self", <<>>, "u16"),
       Op("manufacturer_name", "&mut self", <<"&mut [u8]">>, "()"),
       Op("device_name", "&mut self", <<"&mut [u8]">>, "()"),
       Op("device_chemistry", "&mut self", <<"&mut [u8]">>, "()") >>

\* The operations of the async SmartBattery trait.
AsyncSmartBattery ==
    << Op("remaining_capacity_alarm", "&mut self", <<>>, "CapacityModeValue"),
       Op("set_remaining_capacity_alarm", "&mut self", <<"CapacityModeValue">>, "()"),
       Op("remaining_time_alarm", "&mut self", <<>>, "Minutes"),
       Op("set_remaining_time_alarm", "&mut self", <<"Minutes">>, "()"),
       Op("battery_mode", "&mut self", <<>>, "BatteryModeFields"),
       Op("set_battery_mode", "&mut self", <<"BatteryModeFields">>, "()"),
       Op("at_rate", "&mut self", <<>>, "CapacityModeSignedValue"),
       Op("set_at_rate", "&mut self", <<"CapacityModeSignedValue">>, "()"),
       Op("at_rate_time_to_full", "&mut self", <<>>, "Minutes"),
       Op("at_rate_time_to_empty", "&mut self", <<>>, "Minutes"),
       Op("at_rate_ok", "&mut self", <<>>, "bool"),
       Op("temperature", "&mut self", <<>>, "DeciKelvin"),
       Op("voltage", "&mut self", <<>>, "MilliVolts"),
       Op("current", "&mut self", <<>>, "MilliAmpsSigned"),
       Op("average_current", "&mut self", <<>>, "MilliAmpsSigned"),
       Op("max_error", "&mut self", <<>>, "Percent"),
       Op("relative_state_of_charge", "&mut self", <<>>, "Percent"),
       Op("absolute_state_of_charge", "&mut self", <<>>, "Percent"),
       Op("remaining_capacity", "&mut self", <<>>, "CapacityModeValue"),
       Op("full_charge_capacity", "&mut self", <<>>, "CapacityModeValue"),
       Op("run_time_to_empty", "&mut self", <<>>, "Minutes"),
       Op("average_time_to_empty", "&mut self", <<>>, "Minutes"),
       Op("average_time_to_full", "&mut self", <<>>, "Minutes"),
       Op("charging_current", "&mut self", <<>>, "MilliAmps"),
       Op("charging_voltage", "&mut self", <<>>, "MilliVolts"),
       Op("battery_status", "&mut self", <<>>, "BatteryStatusFields"),
       Op("cycle_count", "&mut self", <<>>, "Cycles"),
       Op("design_capacity", "&mut self", <<>>, "CapacityModeValue"),
       Op("design_voltage", "&mut self", <<>>, "MilliVolts"),
       Op("specification_info", "&mut self", <<>>, "SpecificationInfoFields"),
       Op("manufacture_date", "&mut self", <<>>, "ManufactureDate"),
       Op("serial_number", "&mut self", <<>>, "u16"),
       Op("manufacturer_name", "&mut self", <<"&mut [u8]">>, "()"),
       Op("device_name", "&mut self", <<"&mut [u8]">>, "()"),
       Op("device_chemistry", "&mut self", <<"&mut [u8]">>, "()") >>

\* The operations of the blocking Charger trait.
BlockingCharger ==
    << Op("charging_current", "&mut self", <<"MilliAmps">>, "MilliAmps"),
       Op("charging_voltage", "&mut self", <<"MilliVolts">>, "MilliVolts") >>

\* The operations of the async Charger trait.
AsyncCharger ==
    << Op("charging_current", "&mut self", <<"MilliAmps">>, "MilliAmps"),
       Op("charging_voltage", "&mut self", <<"MilliVolts">>, "MilliVolts") >>

\* impl SmartBattery for &mut T (blocking): the body of each operation.
BlockingSmartBatteryRef ==
    << Fwd("remaining_capacity_alarm", "remaining_capacity_alarm", <<1>>, ""),
       Fwd("remaining_time_alarm", "remaining_time_alarm", <<1>>, ""),
       Fwd("battery_mode", "battery_mode", <<1>>, ""),
       Fwd("at_rate", "at_rate", <<1>>, ""),
       Fwd("at_rate_time_to_full", "at_rate_time_to_full", <<>>, ""),
       Fwd("at_rate_time_to_empty", "at_rate_time_to_empty", <<>>, ""),
       Fwd("at_rate_ok", "at_rate_ok", <<>>, ""),
       Fwd("temperature", "temperature", <<>>, ""),
       Fwd("voltage", "voltage", <<>>, ""),
       Fwd("current", "current", <<>>, ""),
       Fwd("average_current", "average_current", <<>>, ""),
       Fwd("max_error", "max_error", <<>>, ""),
       Fwd("relative_state_of_charge", "relative_state_of_charge", <<>>, ""),
       Fwd("absolute_state_of_charge", "absolute_state_of_charge", <<>>, ""),
       Fwd("remaining_capacity", "remaining_capacity", <<>>, ""),
       Fwd("full_charge_capacity", "full_charge_capacity", <<>>, ""),
       Fwd("run_time_to_empty", "run_time_to_empty", <<>>, ""),
       Fwd("average_time_to_empty", "average_time_to_empty", <<>>, ""),
       Fwd("average_time_to_full", "average_time_to_full", <<>>, ""),
       Fwd("battery_status", "battery_status", <<>>, ""),
       Fwd("cycle_count", "cycle_count", <<>>, ""),
       Fwd("design_capacity", "design_capacity", <<>>, ""),
       Fwd("design_voltage", "design_voltage", <<>>, ""),
       Fwd("specification_info", "specification_info", <<>>, ""),
       Fwd("manufacture_date", "manufacture_date", <<>>, ""),
       Fwd("serial_number", "serial_number", <<>>, ""),
       Fwd("manufacturer_name", "manufacturer_name", <<1>>, ""),
       Fwd("device_name", "device_name", <<1>>, ""),
       Fwd("device_chemistry", "device_chemistry", <<1>>, "") >>

\* impl Charger for &mut T (blocking): the body of each operation.
BlockingChargerRef ==
    << Fwd("charging_current", "charging_current", <<1>>, ""),
       Fwd("charging_voltage", "charging_voltage", <<1>>, "") >>

\* impl Charger for &mut T (async): the body of each operation.
AsyncChargerRef ==
    << Fwd("charging_current", "charging_current", <<1>>, ".await"),
       Fwd("charging_voltage", "charging_voltage", <<1>>, ".await") >>

\* impl_smart_battery_for_wrapper_type!: the body of each generated operation.
WrapperMacro ==
    << Fwd("remaining_capacity_alarm", "remaining_capacity_alarm", <<>>, ".await?"),
       Fwd("set_remaining_capacity_alarm", "set_remaining_capacity_alarm", <<1>>, ".await"),
       Fwd("remaining_time_alarm", "remaining_time_alarm", <<>>, ".await"),
       Fwd("set_remaining_time_alarm", "set_remaining_time_alarm", <<1>>, ".await"),
       Fwd("battery_mode", "battery_mode", <<>>, ".await"),
       Fwd("set_battery_mode", "set_battery_mode", <<1>>, ".await"),
       Fwd("at_rate", "at_rate", <<>>, ".await"),
       Fwd("set_at_rate", "set_at_rate", <<1>>, ".await"),
       Fwd("at_rate_time_to_full", "at_rate_time_to_full", <<>>, ".await"),
       Fwd("at_rate_time_to_empty", "at_rate_time_to_empty", <<>>, ".await"),
       Fwd("at_rate_ok", "at_rate_ok", <<>>, ".await"),
       Fwd("temperature", "temperature", <<>>, ".await"),
       Fwd("voltage", "voltage", <<>>, ".await"),
       Fwd("current", "current", <<>>, ".await"),
       Fwd("average_current", "average_current", <<>>, ".await"),
       Fwd("max_error", "max_error", <<>>, ".await"),
       Fwd("relative_state_of_charge", "relative_state_of_charge", <<>>, ".await"),
       Fwd("absolute_state_of_charge", "absolute_state_of_charge", <<>>, ".await"),
       Fwd("remaining_capacity", "remaining_capacity", <<>>, ".await"),
       Fwd("full_charge_capacity", "full_charge_capacity", <<>>, ".await"),
       Fwd("run_time_to_empty", "run_time_to_empty", <<>>, ".await"),
       Fwd("average_time_to_empty", "average_time_to_empty", <<>>, ".await"),
       Fwd("average_time_to_full", "average_time_to_full", <<>>, ".await"),
       Fwd("charging_current", "charging_current", <<>>, ".await"),
       Fwd("charging_voltage", "charging_voltage", <<>>, ".await"),
       Fwd("battery_status", "battery_status", <<>>, ".await"),
       Fwd("cycle_count", "cycle_count", <<>>, ".await"),
       Fwd("design_capacity", "design_capacity", <<>>, ".await"),
       Fwd("design_voltage", "design_voltage", <<>>, ".await"),
       Fwd("specification_info", "specification_info", <<>>, ".await"),
       Fwd("manufacture_date", "manufacture_date", <<>>, ".await"),
       Fwd("serial_number", "serial_number", <<>>, ".await"),
       Fwd("manufacturer_name", "manufacturer_name", <<1>>, ".await"),
       Fwd("device_name", "device_name", <<1>>, ".await"),
       Fwd("device_chemistry", "device_chemistry", <<1>>, ".await") >>

\* The type aliases of the crate.
Resolve(ty) ==
    CASE ty \in {"MilliAmps", "MilliVolts", "Minutes", "DeciKelvin", "Cycles"} -> "u16"
      [] ty \in {"MilliAmpsSigned", "MilliVoltsSigned"} -> "i16"
      [] ty = "Percent" -> "u8"
      [] OTHER -> ty

\* The sampled values of an integer type from lo to hi.
Samples(lo, hi) == {lo, hi} \cup (0..MaxSample)

\* The (sampled) values of a type.
Values(ty) ==
    LET t == Resolve(ty)
    IN  CASE t = "u16" -> { V(t, "", n) : n \in Samples(0, 65535) }
          [] t = "i16" -> { V(t, "", n) : n \in Samples(-32768, 32767) }
          [] t = "u8" -> { V(t, "", n) : n \in Samples(0, 255) }
          [] t = "bool" -> { V(t, "", n) : n \in {0, 1} }
          [] t = "()" -> { Unit }
          [] t = "CapacityModeValue" ->
                { V(t, tag, n) : tag \in {"MilliAmpUnsigned", "CentiWattUnsigned"},
                                 n \in Samples(0, 65535) }
          [] t = "CapacityModeSignedValue" ->
                { V(t, tag, n) : tag \in {"MilliAmpSigned", "CentiWattSigned"},
                                 n \in Samples(-32768, 32767) }
          [] t \in {"BatteryModeFields", "BatteryStatusFields",
                    "SpecificationInfoFields", "ManufactureDate"} ->
                { V(t, "", n) : n \in Samples(0, 65535) }
          [] t = "&mut [u8]" -> { V(t, "", n) : n \in 0..MaxSample }

\* Every tuple of argument values for the parameter types tys.
RECURSIVE ArgTuples(_)
ArgTuples(tys) ==
    IF tys = <<>> THEN { <<>> }
    ELSE { <<a>> \o rest : a \in Values(Head(tys)), rest \in ArgTuples(Tail(tys)) }

\* The types for which the crate implements Error.
ErrorTypes == {"ErrorKind", "Infallible"}

\* The module whose Error and ErrorKind a trait uses.
Family(trait) == IF trait = "SmartBattery" THEN "smart_battery" ELSE "charger"

\* The values of smart_battery::ErrorKind.
smart_battery_ErrorKind ==
    { V("smart_battery::ErrorKind", "CommError", 0),
      V("smart_battery::ErrorKind", "Other", 0) }
    \cup { V("smart_battery::ErrorKind", "BatteryStatus", code) : code \in 0..7 }

\* The values of charger::ErrorKind.
charger_ErrorKind ==
    { V("charger::ErrorKind", "CommError", 0), V("charger::ErrorKind", "Other", 0) }

\* The values of an error type; core::convert::Infallible has none.
ErrorValues(family, errTy) ==
    IF errTy = "Infallible" THEN {}
    ELSE IF family = "smart_battery" THEN smart_battery_ErrorKind
    ELSE charger_ErrorKind

\* Control reached a place that has no code.
Unreachable == V("!", "unreachable", 0)

smart_battery_ErrorKind_kindOther(self) == V(self.ty, "Other", 0)

\* impl Error for smart_battery::ErrorKind: kind() is *self.
smart_battery_ErrorKind_kind(self) == self

\* impl Error for charger::ErrorKind: kind() is *self.
charger_ErrorKind_kind(self) == self

\* impl Error for Infallible: kind() is a match with no arm.
Infallible_kind(self) == Unreachable

\* kind() of the error value self of type errTy.
kind(family, errTy, self) ==
    IF errTy = "Infallible" THEN Infallible_kind(self)
    ELSE IF family = "smart_battery" THEN smart_battery_ErrorKind_kind(self)
    ELSE charger_ErrorKind_kind(self)

\* What a device with error type errTy can return from an operation with
\* Ok type ret.
Results(ret, family, errTy) ==
    { [ok |-> TRUE, val |-> v] : v \in Values(ret) }
    \cup { [ok |-> FALSE, val |-> e] : e \in ErrorValues(family, errTy) }

Forms == {"blocking", "async"}
Traits == {"SmartBattery", "Charger"}

\* The operations of a trait in one form.
Trait(form, trait) ==
    IF form = "blocking"
    THEN IF trait = "SmartBattery" THEN BlockingSmartBattery ELSE BlockingCharger
    ELSE IF trait = "SmartBattery" THEN AsyncSmartBattery ELSE AsyncCharger

\* The names of the operations of a trait in one form.
OpNames(form, trait) ==
    { Trait(form, trait)[i].name : i \in 1..Len(Trait(form, trait)) }

\* The signature of operation op.
Sig(form, trait, op) ==
    Trait(form, trait)[CHOOSE i \in 1..Len(Trait(form, trait)) :
                          Trait(form, trait)[i].name = op]

\* The impls of a trait for &mut T.
RefImpls ==
    { [form |-> "blocking", trait |-> "SmartBattery", body |-> BlockingSmartBatteryRef],
      [form |-> "blocking", trait |-> "Charger", body |-> BlockingChargerRef],
      [form |-> "async", trait |-> "Charger", body |-> AsyncChargerRef] }

PassArgsDefault(pass, args) ==
    IF pass = <<>> THEN <<>>
    ELSE [i \in 1..Len(pass) |-> V(args[pass[i]].ty, args[pass[i]].tag, 0)]

\* The arguments a forwarding body hands to the inner operation.
PassArgs(pass, args) ==
    IF pass = <<>> THEN <<>>
    ELSE [i \in 1..Len(pass) |-> args[pass[i]]]

\* The type Result<okTy, errTy>, and a type that is not a Result.
ResultTy(okTy, errTy) == [ctor |-> "Result", ok |-> Resolve(okTy), err |-> errTy]
PlainTy(ty) == [ctor |-> "", ok |-> Resolve(ty), err |-> ""]

\* The type of the tail expression of a forwarding body: the inner call's
\* Result, or with a trailing `?` the Ok value taken out of it.
ExprType(b, inner, innerErr) ==
    IF b.post = ".await?" THEN PlainTy(inner.ret)
    ELSE ResultTy(inner.ret, innerErr)

\* The body b type-checks as the body of an operation declared to return
\* Result<sig.ret, Self::Error>.
TypeChecks(b, sig, inner, innerErr, selfErr) ==
    ExprType(b, inner, innerErr) = ResultTy(sig.ret, selfErr)

\* The error types a wrapper is given: the inner device's own, or the
\* WrapperError of the macro's example.
WrapperErrorTypes == ErrorTypes \cup {"WrapperError"}

\* An expansion of the wrapper macro compiles: every generated body
\* type-checks.
Builds(innerErr, wrapErr) ==
    \A i \in 1..Len(WrapperMacro) :
        TypeChecks(WrapperMacro[i],
                   Sig("async", "SmartBattery", WrapperMacro[i].name),
                   Sig("async", "SmartBattery", WrapperMacro[i].target),
                   innerErr, wrapErr)

\* The program could not be built.
NoBuild == [ok |-> FALSE, val |-> V("!", "does not compile", 0)]

\* The record of a trait call.
TrCall(form, trait, via, op, args, errTy, innerErrTy) ==
    [form |-> form, trait |-> trait, via |-> via, op |-> op, args |-> args,
     errTy |-> errTy, innerErrTy |-> innerErrTy]

\* A caller calls an operation of a device directly.
DirectCall ==
    /\ tpc = "idle"
    /\ \E form \in Forms, trait \in Traits, errTy \in ErrorTypes :
         \E i \in 1..Len(Trait(form, trait)) :
            LET sig == Trait(form, trait)[i]
            IN  \E args \in ArgTuples(sig.args),
                   r \in Results(sig.ret, Family(trait), errTy) :
                    /\ trCall' = TrCall(form, trait, "direct", sig.name, args,
                                        errTy, errTy)
                    /\ innerLog' = <<[op |-> sig.name, args |-> args]>>
                    /\ innerRes' = r
                    /\ trRes' = r
    /\ tpc' = "done"
    /\ UNCHANGED <<kindOut, serVars, bitVars, shVars, cvVars>>

\* A caller calls an operation on &mut T.
RefCall ==
    /\ tpc = "idle"
    /\ \E impl \in RefImpls, errTy \in ErrorTypes :
         \E i \in 1..Len(impl.body) :
            LET b == impl.body[i]
                sig == Sig(impl.form, impl.trait, b.name)
                inner == Sig(impl.form, impl.trait, b.target)
            IN  \E args \in ArgTuples(sig.args),
                   r \in Results(inner.ret, Family(impl.trait), errTy) :
                    /\ trCall' = TrCall(impl.form, impl.trait, "ref", b.name,
                                        args, errTy, errTy)
                    /\ innerLog' = Append(innerLog,
                            [op |-> b.target, args |-> PassArgs(b.pass, args)])
                    /\ innerRes' = r
                    /\ trRes' = r
    /\ tpc' = "done"
    /\ UNCHANGED <<kindOut, serVars, bitVars, shVars, cvVars>>

\* A caller calls an operation on a wrapper type generated by
\* impl_smart_battery_for_wrapper_type!.
WrapperCall ==
    /\ tpc = "idle"
    /\ \E innerErr \in ErrorTypes, wrapErr \in WrapperErrorTypes :
         \E i \in 1..Len(WrapperMacro) :
            LET b == WrapperMacro[i]
                sig == Sig("async", "SmartBattery", b.name)
                inner == Sig("async", "SmartBattery", b.target)
            IN  \E args \in ArgTuples(sig.args),
                   r \in Results(inner.ret, "smart_battery", innerErr) :
                    /\ trCall' = TrCall("async", "SmartBattery", "wrapper",
                                        b.name, args, wrapErr, innerErr)
                    /\ IF Builds(innerErr, wrapErr)
                       THEN /\ innerLog' = Append(innerLog,
                                  [op |-> b.target, args |-> PassArgs(b.pass, args)])
                            /\ innerRes' = r
                            /\ trRes' = r
                       ELSE /\ trRes' = NoBuild
                            /\ UNCHANGED <<innerLog, innerRes>>
    /\ tpc' = "done"
    /\ UNCHANGED <<kindOut, serVars, bitVars, shVars, cvVars>>

\* The caller asks the error it got for its kind.
Kind ==
    /\ tpc = "done"
    /\ ~trRes.ok
    /\ trCall.errTy \in ErrorTypes
    /\ trRes # NoBuild
    /\ kindOut' = kind(Family(trCall.trait), trCall.errTy, trRes.val)
    /\ tpc' = "kind"
    /\ UNCHANGED <<trCall, innerLog, innerRes, trRes, serVars, bitVars, shVars, cvVars>>

NextTrait == DirectCall \/ RefCall \/ WrapperCall \/ Kind

TraitInit == IdleTr /\ IdleSer /\ IdleBits /\ IdleShare /\ IdleConv

SpecTrait == TraitInit /\ [][NextTrait]_vars

(***************************************************************************)
(* Several callers and one device handle.  A call borrows the handle as    *)
(* the receiver of the operation says; the borrow lives until the call     *)
(* returns, or for an async operation until its future completes or is     *)
(* dropped.                                                                *)
(***************************************************************************)
\* Number of callers that share the handle.
NCallers == 2

Callers == 1..NCallers

ReceiverShared(sig) == "&self"

\* The receiver an operation declares.
Receiver(sig) == sig.recv

\* A new borrow of kind recv may be taken while the borrows bs are alive:
\* one exclusive borrow, or any number of shared ones.
CanBorrow(recv, bs) ==
    IF recv = "&mut self" THEN bs = {}
    ELSE \A b \in bs : b.kind # "&mut self"

InitShare ==
    /\ borrows = {}
    /\ active = [c \in Callers |-> NoOp]

\* Caller c starts an operation on the handle.
Begin(c) ==
    /\ active[c].st = "none"
    /\ \E form \in Forms, trait \in Traits :
         \E i \in 1..Len(Trait(form, trait)) :
            LET sig == Trait(form, trait)[i]
            IN  /\ CanBorrow(Receiver(sig), borrows)
                /\ borrows' = borrows \cup {[by |-> c, kind |-> Receiver(sig)]}
                /\ active' = [active EXCEPT ![c] =
                        [st |-> "running", form |-> form, trait |-> trait,
                         op |-> sig.name]]
    /\ UNCHANGED <<serVars, bitVars, trVars, cvVars>>

\* The future of caller c's async operation returns Pending.
Suspend(c) ==
    /\ active[c].st = "running"
    /\ active[c].form = "async"
    /\ active' = [active EXCEPT ![c].st = "suspended"]
    /\ UNCHANGED <<borrows, serVars, bitVars, trVars, cvVars>>

\* The future of caller c's async operation is polled again.
Resume(c) ==
    /\ active[c].st = "suspended"
    /\ active' = [active EXCEPT ![c].st = "running"]
    /\ UNCHANGED <<borrows, serVars, bitVars, trVars, cvVars>>

\* Caller c's operation returns.
Complete(c) ==
    /\ active[c].st = "running"
    /\ active' = [active EXCEPT ![c] = NoOp]
    /\ borrows' = { b \in borrows : b.by # c }
    /\ UNCHANGED <<serVars, bitVars, trVars, cvVars>>

\* Caller c drops the future of its suspended operation.
DropFuture(c) ==
    /\ active[c].st = "suspended"
    /\ active' = [active EXCEPT ![c] = NoOp]
    /\ borrows' = { b \in borrows : b.by # c }
    /\ UNCHANGED <<serVars, bitVars, trVars, cvVars>>

NextShare ==
    \E c \in Callers :
        Begin(c) \/ Suspend(c) \/ Resume(c) \/ Complete(c) \/ DropFuture(c)

ShareInit == InitShare /\ IdleSer /\ IdleBits /\ IdleTr /\ IdleConv

SpecShare == ShareInit /\ [][NextShare]_vars

(***************************************************************************)
(* The _BCT and _BTM results: conversions from and to u32 and to bytes.    *)
(***************************************************************************)
\* The 16-bit halves of the sampled u32 values: the MaxConv + 1 lowest and
\* the MaxConv + 1 highest.
MaxConv == 2

Halves == (0..MaxConv) \cup ((65535 - MaxConv)..65535)

\* The sampled u32 values.
U32Samples == { U32(hi, lo) : hi \in Halves, lo \in Halves }

\* From<u32> for BctReturnResult
BctReturnResult_from_u32NoUnknown(value) ==
    IF value = U32(0, 0) THEN Variant("InvalidTarget", U32(0, 0))
    ELSE Variant("EstimatedTime", value)
BctReturnResult_from_u32(value) ==
    IF value = U32(0, 0) THEN Variant("InvalidTarget", U32(0, 0))
    ELSE IF value = U32(65535, 65535) THEN Variant("Unknown", U32(0, 0))
    ELSE Variant("EstimatedTime", value)

\* From<BctReturnResult> for u32
u32_from_BctReturnResult(value) ==
    CASE value.tag = "InvalidTarget" -> U32(0, 0)
      [] value.tag = "Unknown" -> U32(65535, 65535)
      [] value.tag = "EstimatedTime" -> value.seconds

\* From<BctReturnResult> for [u8; BCT_RETURN_SIZE_BYTES]
bytes_from_BctReturnResult(value) == to_le_bytes(u32_from_BctReturnResult(value))

\* From<u32> for BtmReturnResult
BtmReturnResult_from_u32(value) ==
    IF value = U32(0, 0) THEN Variant("RateTooHighOrBatteryCritical", U32(0, 0))
    ELSE IF value = U32(65535, 65535) THEN Variant("Unknown", U32(0, 0))
    ELSE Variant("EstimatedRuntime", value)

\* From<BtmReturnResult> for u32
u32_from_BtmReturnResultHalfUnknown(value) ==
    CASE value.tag = "RateTooHighOrBatteryCritical" -> U32(0, 0)
      [] value.tag = "Unknown" -> U32(32767, 65535)
      [] value.tag = "EstimatedRuntime" -> value.seconds
u32_from_BtmReturnResult(value) ==
    CASE value.tag = "RateTooHighOrBatteryCritical" -> U32(0, 0)
      [] value.tag = "Unknown" -> U32(65535, 65535)
      [] value.tag = "EstimatedRuntime" -> value.seconds

\* From<BtmReturnResult> for [u8; BTM_RETURN_SIZE_BYTES]
bytes_from_BtmReturnResult(value) == to_le_bytes(u32_from_BtmReturnResult(value))

ConvTypes == {"BctReturnResult", "BtmReturnResult"}

\* The values of a result type a caller can construct.
Variants(ty) ==
    IF ty = "BctReturnResult"
    THEN { Variant("InvalidTarget", U32(0, 0)), Variant("Unknown", U32(0, 0)) }
         \cup { Variant("EstimatedTime", s) : s \in U32Samples }
    ELSE { Variant("RateTooHighOrBatteryCritical", U32(0, 0)),
           Variant("Unknown", U32(0, 0)) }
         \cup { Variant("EstimatedRuntime", s) : s \in U32Samples }

from_u32(ty, value) ==
    IF ty = "BctReturnResult" THEN BctReturnResult_from_u32(value)
    ELSE BtmReturnResult_from_u32(value)

u32_from(ty, value) ==
    IF ty = "BctReturnResult" THEN u32_from_BctReturnResult(value)
    ELSE u32_from_BtmReturnResult(value)

bytes_from(ty, value) ==
    IF ty = "BctReturnResult" THEN bytes_from_BctReturnResult(value)
    ELSE bytes_from_BtmReturnResult(value)

\* A caller holds a u32 to decode, or a result it constructed to encode.
InitConv ==
    \E ty \in ConvTypes :
        \/ \E v \in U32Samples :
              conv = [ty |-> ty, dir |-> "decode", step |-> 0, v |-> v,
                      r |-> Variant("", U32(0, 0)), v2 |-> U32(0, 0),
                      r2 |-> Variant("", U32(0, 0)), bytes |-> <<>>]
        \/ \E r \in Variants(ty) :
              conv = [ty |-> ty, dir |-> "encode", step |-> 0, v |-> U32(0, 0),
                      r |-> r, v2 |-> U32(0, 0),
                      r2 |-> Variant("", U32(0, 0)), bytes |-> <<>>]

\* <Result>::from(u32): of the given value, or of the value just encoded.
FromU32 ==
    /\ \/ /\ conv.dir = "decode" /\ conv.step = 0
          /\ conv' = [conv EXCEPT !.r = from_u32(conv.ty, conv.v), !.step = 1]
       \/ /\ conv.dir = "encode" /\ conv.step = 1
          /\ conv' = [conv EXCEPT !.r2 = from_u32(conv.ty, conv.v2), !.step = 2]
    /\ UNCHANGED <<serVars, bitVars, trVars, shVars>>

\* u32::from(result): of the result just decoded, or of the given result.
IntoU32 ==
    /\ \/ /\ conv.dir = "decode" /\ conv.step = 1
          /\ conv' = [conv EXCEPT !.v2 = u32_from(conv.ty, conv.r), !.step = 2]
       \/ /\ conv.dir = "encode" /\ conv.step = 0
          /\ conv' = [conv EXCEPT !.v2 = u32_from(conv.ty, conv.r), !.step = 1]
    /\ UNCHANGED <<serVars, bitVars, trVars, shVars>>

\* <[u8; 4]>::from(result)
IntoBytes ==
    /\ conv.dir # "" /\ conv.step = 2
    /\ conv' = [conv EXCEPT !.bytes = bytes_from(conv.ty, conv.r), !.step = 3]
    /\ UNCHANGED <<serVars, bitVars, trVars, shVars>>

NextConv == FromU32 \/ IntoU32 \/ IntoBytes

ConvInit == InitConv /\ IdleSer /\ IdleBits /\ IdleTr /\ IdleShare

SpecConv == ConvInit /\ [][NextConv]_vars

(***************************************************************************)
(* Properties of the serializers.                                          *)
(***************************************************************************)
\* The variable-length fields of the call's value, in declared order.
Strings(c) ==
    IF c.kind = "bix"
    THEN <<c.self.model_number, c.self.serial_number, c.self.battery_type,
           c.self.oem_info>>
    ELSE <<c.self.model_number, c.self.serial_number, c.self.oem_info>>

\* The call has returned (or aborted).
Called == call.kind # "idle" /\ result # NoVal

\* Every actual length equals its declared size.
LengthsMatch == \A k \in DOMAIN call.sizes : Len(Strings(call)[k]) = call.sizes[k]

\* Header size plus the declared sizes.
Required == HeaderSize(call.kind) + SumSeq(call.sizes)

\* The 32-bit value whose little-endian encoding is the 4 bytes at offset off.
LEValue(buf, off) ==
    U32(buf[off + 3] + 256 * buf[off + 4], buf[off + 1] + 256 * buf[off + 2])

IsBytes(buf) == \A i \in 1..Len(buf) : buf[i] \in 0..255

\* Concatenation of a sequence of byte strings.
RECURSIVE Concat(_)
Concat(ss) == IF ss = <<>> THEN <<>> ELSE Head(ss) \o Concat(Tail(ss))

\* C1: BixReturn::to_bytes with matching lengths and a dst_slice of exactly
\* 64 + the declared sizes returns Ok(()) and does not abort.
C1_BixExactBufferOk ==
    (Called /\ call.kind = "bix" /\ LengthsMatch /\ Len(dst_before) = Required)
        => result = "Ok"

\* C2: Pif::to_bytes with matching lengths and a dst_slice of exactly 12 + the
\* declared sizes returns Ok(()) and leaves dst_slice = LE32(state bits) ++
\* LE32(max_output_power) ++ LE32(max_input_power) ++ model_number ++
\* serial_number ++ oem_info; (0x3, 100, 200, no strings) gives
\* 03 00 00 00 64 00 00 00 C8 00 00 00.
C2_PifExactLayout ==
    (Called /\ call.kind = "pif" /\ LengthsMatch /\ Len(dst_before) = Required)
        => /\ result = "Ok"
           /\ Len(dst_slice) = Required
           /\ IsBytes(dst_slice)
           /\ LEValue(dst_slice, 0) = call.self.power_source_state
           /\ LEValue(dst_slice, 4) = call.self.max_output_power
           /\ LEValue(dst_slice, 8) = call.self.max_input_power
           /\ SubSeq(dst_slice, 13, Len(dst_slice)) = Concat(Strings(call))
           /\ (/\ call.self.power_source_state = U32(0, 3)
               /\ call.self.max_output_power = U32(0, 100)
               /\ call.self.max_input_power = U32(0, 200)
               /\ Required = 12)
              => dst_slice = <<3, 0, 0, 0, 100, 0, 0, 0, 200, 0, 0, 0>>

C2_Witness ==
    /\ Called /\ call.kind = "pif" /\ LengthsMatch /\ Len(dst_before) = Required
    /\ result = "Ok"
    /\ \A k \in 1..3 : call.sizes[k] = 2
    /\ call.self.power_source_state # U32(0, 3)

\* The 32-bit code the claim gives for each enumeration field.
PowerUnitCode(u) == IF u = "MilliWatts" THEN U32(0, 0) ELSE U32(0, 1)
BatteryTechnologyCode(t) == IF t = "Primary" THEN U32(0, 0) ELSE U32(0, 1)

\* The sixteen header values of a BixReturn in the order of the claim.
BixHeaderValues(b) ==
    <<b.revision, PowerUnitCode(b.power_unit), b.design_capacity,
      b.last_full_charge_capacity, BatteryTechnologyCode(b.battery_technology),
      b.design_voltage, b.design_cap_of_warning, b.design_cap_of_low,
      b.cycle_count, b.measurement_accuracy, b.max_sampling_time,
      b.min_sampling_time, b.max_averaging_interval, b.min_averaging_interval,
      b.battery_capacity_granularity_1, b.battery_capacity_granularity_2>>

\* C3: whenever BixReturn::to_bytes returns Ok, bytes 0..64 are the sixteen
\* header values as little-endian 32-bit values in declared order, and from
\* offset 64 follow model_number, serial_number, battery_type, oem_info,
\* contiguous and in that order.
C3_BixLayout ==
    (Called /\ call.kind = "bix" /\ result = "Ok")
        => /\ IsBytes(dst_slice)
           /\ \A k \in 1..16 :
                 LEValue(dst_slice, 4 * (k - 1)) = BixHeaderValues(call.self)[k]
           /\ SubSeq(dst_slice, 65, Required) = Concat(Strings(call))

C3_Witness ==
    /\ Called /\ call.kind = "bix" /\ result = "Ok"
    /\ \A k \in 1..4 : call.sizes[k] = 2
    /\ call.self.power_unit = "MilliAmps"
    /\ call.self.battery_technology = "Primary"

\* C4: for both serializers a dst_slice shorter than the header plus the
\* declared sizes makes the call return Err(InputSliceTooSmall), never Ok.
C4_ShortBufferFails ==
    (Called /\ Len(dst_before) < Required) => result = "InputSliceTooSmall"

C4_Witness ==
    /\ Called /\ LengthsMatch /\ Len(dst_before) = Required - 1
    /\ call.kind = "bix" /\ SumSeq(call.sizes) > 0
    /\ result = "InputSliceTooSmall"

\* C5 as stated: whenever an actual length differs from its declared size,
\* the call fails with StringSizeMismatch whatever the length of dst_slice.
C5_MismatchWhateverBuffer ==
    (Called /\ ~LengthsMatch) => result = "StringSizeMismatch"

\* C5 amended: whenever an actual length differs from its declared size the
\* call fails: with StringSizeMismatch when dst_slice is at least header +
\* declared sizes long, with InputSliceTooSmall when it is shorter.
C5_MismatchFails ==
    (Called /\ ~LengthsMatch)
        => result = (IF Len(dst_before) >= Required
                     THEN "StringSizeMismatch" ELSE "InputSliceTooSmall")

C5_Witness ==
    /\ Called /\ ~LengthsMatch /\ Len(dst_before) >= Required
    /\ call.kind = "pif"
    /\ Len(call.self.oem_info) > call.sizes[3]
    /\ result = "StringSizeMismatch"

(***************************************************************************)
(* Properties of the bitfield registers.                                   *)
(***************************************************************************)
\* The u16 put together again from the bits of every field of the layout,
\* reserved fields included.
RECURSIVE Reassemble(_, _, _)
Reassemble(layout, k, bits) ==
    IF k = 0 THEN 0
    ELSE FieldBits(layout, k, bits) * Pow2(FieldOffset(layout, k))
         + Reassemble(layout, k - 1, bits)

C7_DecodeTotal ==
    (pc = "read") => \A k \in DOMAIN fieldsOut : fieldsOut[k].ok

\* C8: Revision::from_bits returns Version1And1Dot1 for 1 and is unreachable
\* for 0 and 2..15: reading revision() of a SpecificationInfoFields whose low
\* nibble is not 1 aborts, and returns no reserved variant or error value.
C8_RevisionAborts ==
    (pc = "read" /\ regType = "SpecificationInfoFields")
        => IF rawIn % 16 = 1
           THEN fieldsOut[1] = [ok |-> TRUE, val |-> "Version1And1Dot1"]
           ELSE fieldsOut[1] = [ok |-> FALSE, val |-> Panic]

C8_Witness ==
    /\ pc = "read" /\ regType = "SpecificationInfoFields"
    /\ rawIn % 16 = 0
    /\ ~fieldsOut[1].ok

\* C9: a ManufactureDate built by setting day, month and year in any order
\* reads back exactly the day, month and year that were set.
C9_DateRoundTrip ==
    (pc = "read" /\ regType = "ManufactureDate" /\ hist # NoHist)
        => /\ fieldsOut[1] = [ok |-> TRUE, val |-> hist.day]
           /\ fieldsOut[2] = [ok |-> TRUE, val |-> hist.month]
           /\ fieldsOut[3] = [ok |-> TRUE, val |-> hist.year]

C9_Witness ==
    /\ pc = "read" /\ regType = "ManufactureDate"
    /\ hist = [day |-> 31, month |-> 12, year |-> 127]
    /\ fieldsOut[1].val = 31 /\ fieldsOut[2].val = 12 /\ fieldsOut[3].val = 127

\* C10: the raw value of a ManufactureDate with fields day, month, year is
\* year * 512 + month * 32 + day, and the fields decoded from a raw value I
\* are day = I mod 32, month = (I div 32) mod 16, year = I div 512.
C10_DatePacking ==
    (pc = "read" /\ regType = "ManufactureDate" /\ hist # NoHist)
        => /\ reg = hist.year * 512 + hist.month * 32 + hist.day
           /\ into_bits(regType, reg) = hist.year * 512 + hist.month * 32 + hist.day
           /\ fieldsOut[1].val = reg % 32
           /\ fieldsOut[2].val = (reg \div 32) % 16
           /\ fieldsOut[3].val = reg \div 512

C10_Witness ==
    /\ pc = "read" /\ regType = "ManufactureDate"
    /\ reg = 65535
    /\ fieldsOut[3].val = 127

\* The field of register type ty called name.
FieldNamed(ty, name) ==
    CHOOSE k \in 1..Len(Layout(ty)) : Layout(ty)[k].name = name

\* Bit n of the 16-bit value I.
Bit(I, n) == (I \div Pow2(n)) % 2 = 1

\* The documented error code of a 4-bit pattern.
DocumentedErrorCode(v) ==
    IF v >= 7 THEN "UnknownError"
    ELSE <<"Ok", "Busy", "ReservedCmd", "UnsupportedCmd", "AccessDenied",
           "UnderOverFlow", "BadSize">>[v + 1]

\* C11: every 4-bit pattern of the error_code field of BatteryStatusFields
\* decodes without failure: 0 Ok, 1 Busy, 2 ReservedCmd, 3 UnsupportedCmd,
\* 4 AccessDenied, 5 UnderOverFlow, 6 BadSize, 7..15 UnknownError.
C11_ErrorCodeDecode ==
    (pc = "read" /\ regType = "BatteryStatusFields")
        => fieldsOut[FieldNamed(regType, "error_code")]
             = [ok |-> TRUE, val |-> DocumentedErrorCode(rawIn % 16)]

C11_Witness ==
    /\ pc = "read" /\ regType = "BatteryStatusFields"
    /\ rawIn % 16 = 12
    /\ fieldsOut[1].val = "UnknownError"

\* The documented version of a 4-bit pattern.
DocumentedVersion(v) ==
    IF v \in 1..3 THEN <<"Version1", "Version1Dot1", "Version1Dot1Pec">>[v]
    ELSE "Reserved"

\* C12: Version::from_bits never fails: 1 Version1, 2 Version1Dot1,
\* 3 Version1Dot1Pec, 0 and 4..15 Reserved.
C12_VersionDecode ==
    (pc = "read" /\ regType = "SpecificationInfoFields")
        => fieldsOut[FieldNamed(regType, "version")]
             = [ok |-> TRUE, val |-> DocumentedVersion((rawIn \div 16) % 16)]

C12_Witness ==
    /\ pc = "read" /\ regType = "SpecificationInfoFields"
    /\ (rawIn \div 16) % 16 = 9
    /\ fieldsOut[2].val = "Reserved"

\* The named fields of a register type, by name.
FieldNames(ty) == { Layout(ty)[k].name : k \in NamedFields(ty) }

\* What the accessor called name returned.
Read(name) == fieldsOut[FieldNamed(regType, name)]

\* The documented bit of each flag of the mode register.
BatteryModeBits ==
    << <<"internal_charge_controller", 0>>, <<"primary_battery_support", 1>>,
       <<"condition_flag", 7>>, <<"charge_controller_enabled", 8>>,
       <<"primary_battery", 9>>, <<"alarm_mode", 13>>, <<"charger_mode", 14>>,
       <<"capacity_mode", 15>> >>

\* C19: BatteryModeFields has bit 0 internal_charge_controller, bit 1
\* primary_battery_support, bit 7 condition_flag, bit 8
\* charge_controller_enabled, bit 9 primary_battery, bit 13 alarm_mode, bit 14
\* charger_mode, bit 15 capacity_mode, and no accessor for the reserved bits
\* 2..6 and 10..12; every accessor returns exactly the bit at its position.
C19_BatteryModeLayout ==
    (pc = "read" /\ regType = "BatteryModeFields")
        => /\ FieldNames(regType) =
                { BatteryModeBits[i][1] : i \in 1..Len(BatteryModeBits) }
           /\ \A i \in 1..Len(BatteryModeBits) :
                 Read(BatteryModeBits[i][1])
                    = [ok |-> TRUE, val |-> Bit(rawIn, BatteryModeBits[i][2])]

C19_Witness ==
    /\ pc = "read" /\ regType = "BatteryModeFields"
    /\ rawIn = 32768 + 512 + 128 + 64 + 2
    /\ Read("capacity_mode").val /\ Read("primary_battery").val
    /\ Read("condition_flag").val /\ ~Read("charge_controller_enabled").val

\* The documented bit of each flag of the status register.
BatteryStatusBits ==
    << <<"fully_discharged", 4>>, <<"fully_charged", 5>>, <<"discharging", 6>>,
       <<"initialized", 7>>, <<"remaining_time_alarm", 8>>,
       <<"remaining_capacity_alarm", 9>>, <<"terminate_discharge_alarm", 11>>,
       <<"over_temp_alarm", 12>>, <<"terminate_charge_alarm", 14>>,
       <<"over_charged_alarm", 15>> >>

\* C20: BatteryStatusFields has error_code in bits 0..3, then bit 4
\* fully_discharged, 5 fully_charged, 6 discharging, 7 initialized, 8
\* remaining_time_alarm, 9 remaining_capacity_alarm, 11
\* terminate_discharge_alarm, 12 over_temp_alarm, 14 terminate_charge_alarm,
\* 15 over_charged_alarm, and no accessor for the reserved bits 10 and 13;
\* every accessor returns exactly the bits at its position.
C20_BatteryStatusLayout ==
    (pc = "read" /\ regType = "BatteryStatusFields")
        => /\ FieldNames(regType) =
                {"error_code"} \cup
                { BatteryStatusBits[i][1] : i \in 1..Len(BatteryStatusBits) }
           /\ Read("error_code").ok
           /\ Read("error_code").val = DocumentedErrorCode(rawIn % 16)
           /\ \A i \in 1..Len(BatteryStatusBits) :
                 Read(BatteryStatusBits[i][1])
                    = [ok |-> TRUE, val |-> Bit(rawIn, BatteryStatusBits[i][2])]

C20_Witness ==
    /\ pc = "read" /\ regType = "BatteryStatusFields"
    /\ rawIn = 2048 + 1024 + 5
    /\ Read("terminate_discharge_alarm").val /\ ~Read("over_temp_alarm").val
    /\ ~Read("remaining_capacity_alarm").val
    /\ Read("error_code").val = "UnderOverFlow"

(***************************************************************************)
(* Properties of the trait layer.                                          *)
(***************************************************************************)
\* The documented coarse error kinds of a trait's family.
DocumentedKinds(trait) ==
    IF trait = "SmartBattery"
    THEN { V("smart_battery::ErrorKind", tag, 0) : tag \in {"CommError", "Other"} }
         \cup { V("smart_battery::ErrorKind", "BatteryStatus", c) : c \in 0..7 }
    ELSE { V("charger::ErrorKind", tag, 0) : tag \in {"CommError", "Other"} }

\* C14: kind() of an error value returns exactly one of the documented coarse
\* kinds of its family; for a value that already is an ErrorKind it returns
\* that same value; and kind() of Infallible is never run, because a device
\* whose error type is Infallible never returns an error.
C14_KindConversion ==
    /\ tpc = "kind"
         => /\ trCall.errTy # "Infallible"
            /\ kindOut \in DocumentedKinds(trCall.trait)
            /\ kindOut # Unreachable
            /\ trCall.errTy = "ErrorKind" => kindOut = trRes.val
    /\ (tpc # "idle" /\ trCall.errTy = "Infallible" /\ trCall.via # "wrapper")
         => trRes.ok

C14_Witness ==
    /\ tpc = "kind"
    /\ trCall.trait = "SmartBattery"
    /\ trRes.val.tag = "BatteryStatus" /\ trRes.val.v = 4
    /\ kindOut = V("smart_battery::ErrorKind", "BatteryStatus", 4)

\* C15: a call on &mut T makes exactly one call of the same-named operation
\* on T with the same arguments and returns T's result unchanged, Ok value
\* or error alike.
C15_RefAdapterForwards ==
    (tpc # "idle" /\ trCall.via = "ref")
        => /\ innerLog = <<[op |-> trCall.op, args |-> trCall.args]>>
           /\ trRes = innerRes

C15_Witness ==
    /\ tpc = "done" /\ trCall.via = "ref"
    /\ trCall.form = "async" /\ trCall.op = "charging_voltage"
    /\ trCall.args = <<V("u16", "", 65535)>>
    /\ ~innerRes.ok /\ trRes = [ok |-> FALSE, val |-> V("charger::ErrorKind", "CommError", 0)]

\* The From conversion of the macro's example: the inner error wrapped in
\* the wrapper's error type (the identity when the two types are the same).
convert(e, innerErrTy, wrapErrTy) ==
    IF innerErrTy = wrapErrTy THEN e ELSE V(wrapErrTy, "BatteryError", e.v)

\* C16: every operation of a wrapper generated by
\* impl_smart_battery_for_wrapper_type! calls the same-named operation of the
\* inner field exactly once with unchanged arguments, returns Ok(v) exactly
\* when the inner call returns Ok(v), and Err(convert(e)) exactly when the
\* inner call returns Err(e).
C16_WrapperForwards ==
    (tpc # "idle" /\ trCall.via = "wrapper")
        => /\ innerLog = <<[op |-> trCall.op, args |-> trCall.args]>>
           /\ innerRes.ok => trRes = innerRes
           /\ ~innerRes.ok =>
                trRes = [ok |-> FALSE,
                         val |-> convert(innerRes.val, trCall.innerErrTy, trCall.errTy)]

\* The other form of a trait.
OtherForm(form) == IF form = "blocking" THEN "async" ELSE "blocking"

\* C17: for every operation present in both forms of a trait, the two forms
\* accept the same arguments and return results from the same value domain.
C17_FormsIdentical ==
    (/\ tpc # "idle" /\ trCall.via = "direct"
     /\ trCall.op \in OpNames(OtherForm(trCall.form), trCall.trait))
        => LET other == Sig(OtherForm(trCall.form), trCall.trait, trCall.op)
           IN  /\ trCall.args \in ArgTuples(other.args)
               /\ trRes.ok => trRes.val \in Values(other.ret)

\* The callers with an operation in progress.
InProgress == { c \in Callers : active[c].st # "none" }

\* C18: at no time are two operations on the shared device handle in
\* progress together; an async operation is in progress from its start
\* until its future completes or is dropped, suspended or not.
C18_ExclusiveAccess ==
    DOMAIN active = Callers => Cardinality(InProgress) <= 1

C18_Witness ==
    /\ DOMAIN active = Callers
    /\ active[1] = [st |-> "suspended", form |-> "async", trait |-> "SmartBattery",
                    op |-> "temperature"]
    /\ borrows = {[by |-> 1, kind |-> "&mut self"]}
    /\ active[2].st = "none"

(***************************************************************************)
(* Further properties of the bitfield registers.                           *)
(***************************************************************************)
\* C21: SpecificationInfoFields is four 4-bit fields and no reserved bits:
\* revision reads bits 0..3, version() is Version::from_bits of bits 4..7,
\* v_scale() is (I div 256) mod 16 and ip_scale() is I div 4096.
C21_SpecificationInfoLayout ==
    (pc = "read" /\ regType = "SpecificationInfoFields")
        => /\ NamedFields(regType) = 1..Len(Layout(regType))
           /\ FieldNames(regType) = {"revision", "version", "v_scale", "ip_scale"}
           /\ Read("revision").ok <=> (rawIn % 16 = 1)
           /\ Read("version") =
                [ok |-> TRUE, val |-> Version_from_bits((rawIn \div 16) % 16)]
           /\ Read("v_scale") = [ok |-> TRUE, val |-> (rawIn \div 256) % 16]
           /\ Read("ip_scale") = [ok |-> TRUE, val |-> rawIn \div 4096]

C21_Witness ==
    /\ pc = "read" /\ regType = "SpecificationInfoFields"
    /\ rawIn = 42289
    /\ Read("v_scale").val = 5 /\ Read("ip_scale").val = 10
    /\ Read("version").val = "Version1Dot1Pec"

(***************************************************************************)
(* Further properties of the serializers.                                  *)
(***************************************************************************)
\* C23: whenever BixReturn::to_bytes or Pif::to_bytes returns an error,
\* every byte of dst_slice is as it was before the call.
C23_ErrorLeavesBuffer ==
    (Called /\ result \in {"InputSliceTooSmall", "StringSizeMismatch"})
        => dst_slice = dst_before

C23_Witness ==
    /\ Called /\ call.kind = "pif" /\ result = "StringSizeMismatch"
    /\ Len(dst_before) > 12
    /\ LEValue(dst_before, 0) # call.self.power_source_state
    /\ dst_slice = dst_before

\* C24: the buffer-size check precedes the length-match check: a dst_slice
\* shorter than header + declared sizes together with a length that differs
\* from its declared size gives InputSliceTooSmall, and StringSizeMismatch is
\* returned only when dst_slice is at least header + declared sizes long.
C24_SizeCheckFirst ==
    Called
        => /\ (Len(dst_before) < Required /\ ~LengthsMatch)
                => result = "InputSliceTooSmall"
           /\ result = "StringSizeMismatch" => Len(dst_before) >= Required

C24_Witness ==
    /\ Called /\ call.kind = "bix"
    /\ Len(dst_before) < Required /\ ~LengthsMatch
    /\ result = "InputSliceTooSmall"

\* The 32-bit code of a battery swapping capability.
SwapCode(c) ==
    IF c = "NonSwappable" THEN 0 ELSE IF c = "ColdSwappable" THEN 1 ELSE 2

\* C25: whenever BixReturn::to_bytes returns Ok with declared sizes summing
\* to S, dst_slice is at least 68 + S long, the four bytes at offsets 64+S ..
\* 68+S are the little-endian code of battery_swapping_capability (0, 1, 2),
\* and every byte at offset 68+S or beyond is unchanged.
C25_BixSwapCapabilityTail ==
    (Called /\ call.kind = "bix" /\ result = "Ok")
        => /\ Len(dst_slice) = Len(dst_before)
           /\ Len(dst_slice) >= Required + 4
           /\ SubSeq(dst_slice, Required + 1, Required + 4)
                = <<SwapCode(call.self.battery_swapping_capability), 0, 0, 0>>
           /\ \A i \in (Required + 5)..Len(dst_slice) : dst_slice[i] = dst_before[i]

C25_Witness ==
    /\ Called /\ call.kind = "bix" /\ result = "Ok"
    /\ call.self.battery_swapping_capability = "HotSwappable"
    /\ SumSeq(call.sizes) > 0
    /\ Len(dst_before) > Required + 4
    /\ dst_slice[Required + 1] = 2
    /\ dst_before[Required + 1] # 2

\* C26: whenever Pif::to_bytes returns Ok with a dst_slice longer than
\* 12 + S, every byte at offset 12 + S or beyond is unchanged.
C26_PifTailUntouched ==
    (Called /\ call.kind = "pif" /\ result = "Ok" /\ Len(dst_before) > Required)
        => /\ Len(dst_slice) = Len(dst_before)
           /\ \A i \in (Required + 1)..Len(dst_slice) : dst_slice[i] = dst_before[i]

C26_Witness ==
    /\ Called /\ call.kind = "pif" /\ result = "Ok"
    /\ Len(dst_before) >= Required + 2
    /\ SumSeq(call.sizes) > 0
    /\ SubSeq(dst_slice, 1, Required) # SubSeq(dst_before, 1, Required)
    /\ dst_slice[Len(dst_slice)] # 0

(***************************************************************************)
(* Properties of the _BCT / _BTM result conversions.                       *)
(***************************************************************************)
\* C27: for every 32-bit v, u32::from(BctReturnResult::from(v)) = v and
\* u32::from(BtmReturnResult::from(v)) = v, and the 4-byte conversion of the
\* result is the little-endian encoding of v.
C27_U32RoundTrip ==
    conv.dir = "decode"
        => /\ conv.step >= 2 => conv.v2 = conv.v
           /\ conv.step = 3 =>
                /\ Len(conv.bytes) = 4 /\ IsBytes(conv.bytes)
                /\ LEValue(conv.bytes, 0) = conv.v

C27_Witness ==
    /\ conv.dir = "decode" /\ conv.step = 3
    /\ conv.ty = "BtmReturnResult"
    /\ conv.v = U32(65535, 65535) /\ conv.r.tag = "Unknown"
    /\ conv.bytes = <<255, 255, 255, 255>>

\* The sentinel a 32-bit value stands for, if any.
Sentinel(ty, s) ==
    IF s = U32(0, 0)
    THEN Variant(IF ty = "BctReturnResult" THEN "InvalidTarget"
                 ELSE "RateTooHighOrBatteryCritical", U32(0, 0))
    ELSE Variant("Unknown", U32(0, 0))

Estimated(ty) == IF ty = "BctReturnResult" THEN "EstimatedTime" ELSE "EstimatedRuntime"

\* C28: decoding yields the estimate variant only with seconds s where
\* 0 < s < 0xFFFFFFFF, 0 and 0xFFFFFFFF decode to the sentinels; so
\* from(u32::from(r)) = r for every r except the hand-made estimates of 0 and
\* of 0xFFFFFFFF, which come back as the sentinels.
C28_EstimateRange ==
    /\ (conv.dir = "decode" /\ conv.step >= 1)
         => /\ conv.r.tag = Estimated(conv.ty)
                <=> conv.v \notin {U32(0, 0), U32(65535, 65535)}
            /\ conv.r.tag = Estimated(conv.ty) => conv.r.seconds = conv.v
            /\ conv.r.tag # Estimated(conv.ty) => conv.r = Sentinel(conv.ty, conv.v)
    /\ (conv.dir = "encode" /\ conv.step >= 2)
         => IF /\ conv.r.tag = Estimated(conv.ty)
               /\ conv.r.seconds \in {U32(0, 0), U32(65535, 65535)}
            THEN conv.r2 = Sentinel(conv.ty, conv.r.seconds) /\ conv.r2 # conv.r
            ELSE conv.r2 = conv.r

C28_Witness ==
    /\ conv.dir = "encode" /\ conv.step = 2
    /\ conv.r = Variant("EstimatedTime", U32(65535, 65535))
    /\ conv.r2 = Variant("Unknown", U32(0, 0))

(***************************************************************************)
(* Properties of the setters.                                              *)
(***************************************************************************)
\* The register was changed by a setter and looked at again.
SetSeen == pc = "seen" /\ hist.n >= 1

\* The bit positions of the k-th field of a layout.
FieldRange(layout, k) ==
    FieldOffset(layout, k)..(FieldOffset(layout, k) + layout[k].bits - 1)

\* C22: BatteryModeFields has setters for charge_controller_enabled,
\* primary_battery, alarm_mode, charger_mode and capacity_mode only, and
\* after any sequence of setter calls on from_bits(I) the read-only bits 0, 1
\* and 7 and the reserved bits 2..6 and 10..12 of into_bits() equal those of I.
C22_ReadOnlyBitsKept ==
    (pc = "seen" /\ regType = "BatteryModeFields")
        => /\ { Layout(regType)[k].name : k \in Settable(regType) }
                = {"charge_controller_enabled", "primary_battery", "alarm_mode",
                   "charger_mode", "capacity_mode"}
           /\ \A n \in (0..7) \cup (10..12) : Bit(bitsOut, n) = Bit(rawIn, n)

C22_Witness ==
    /\ pc = "seen" /\ regType = "BatteryModeFields"
    /\ hist.n = 2
    /\ rawIn = 65535
    /\ bitsOut = 65535 - 32768 - 256

\* C29: setting one field of ManufactureDate or BatteryStatusFields to an
\* in-range value leaves every other named field reading as before and every
\* bit outside the field's range, reserved bits included, unchanged.
C29_SetterFrame ==
    (SetSeen /\ regType \in {"ManufactureDate", "BatteryStatusFields"})
        => /\ \A k \in NamedFields(regType) \ {hist.k} :
                 fieldsOut[k] = hist.prevFields[k]
           /\ \A n \in (0..15) \ FieldRange(Layout(regType), hist.k) :
                 Bit(bitsOut, n) = Bit(hist.prevBits, n)

C29_Witness ==
    /\ SetSeen /\ regType = "BatteryStatusFields" /\ hist.n = 1
    /\ rawIn = 65535
    /\ Layout(regType)[hist.k].name = "remaining_capacity_alarm"
    /\ bitsOut = 65535 - 512

\* The documented number of an error code.
CodeOf(e) == CHOOSE v \in 0..7 : DocumentedErrorCode(v) = e

\* C30: setting error_code to any of the eight variants e stores a nibble in
\* 0..7 and reading it back returns e; re-setting error_code from its own
\* decoded value keeps a nibble of 0..7 and turns a nibble of 8..15 into 7.
C30_ErrorCodeRoundTrip ==
    (/\ SetSeen /\ regType = "BatteryStatusFields"
     /\ Layout(regType)[hist.k].name = "error_code")
        => /\ bitsOut % 16 = CodeOf(hist.v)
           /\ fieldsOut[hist.k] = [ok |-> TRUE, val |-> hist.v]
           /\ hist.v = hist.prevFields[hist.k].val
                => bitsOut % 16 = (IF hist.prevBits % 16 <= 7
                                   THEN hist.prevBits % 16 ELSE 7)

C30_Witness ==
    /\ SetSeen /\ regType = "BatteryStatusFields" /\ hist.n = 1
    /\ Layout(regType)[hist.k].name = "error_code"
    /\ rawIn % 16 = 12
    /\ hist.v = "UnknownError" /\ hist.prevFields[hist.k].val = "UnknownError"
    /\ bitsOut = rawIn - 5

====
